---------------------------- MODULE Spec2Model ----------------------------
(***************************************************************************)
(* Field stabilization for fixture generation                              *)
(* (src/src/fixture_generator/field_stabilizer.py).                        *)
(*                                                                         *)
(* Strings that the program inspects (field names, dotted paths, rule      *)
(* patterns) are sequences of one-character strings, so that lower(),      *)
(* `in`, and the f-string that builds a path are computed, not assumed.    *)
(* Strings that the program only carries (leaf values, replacement values) *)
(* are opaque TLA+ strings.                                                *)
(*                                                                         *)
(* A JSON value is a record tagged by `kind`:                              *)
(*   [kind |-> "null"]                 None                                *)
(*   [kind |-> "bool",  b |-> BOOLEAN] bool                                *)
(*   [kind |-> "int",   n |-> Int]     int                                 *)
(*   [kind |-> "float", x |-> STRING]  float, by its repr                  *)
(*   [kind |-> "str",   s |-> STRING]  str                                 *)
(*   [kind |-> "dict",  items |-> Seq([k : key, v : value])]  dict, ordered *)
(*   [kind |-> "list",  elems |-> Seq(value)]                 list         *)
(***************************************************************************)
EXTENDS Integers, Sequences, FiniteSets, TLC

VARIABLES
    pc,          \* which call has been made so far
    doc,         \* _stabilize_value: the input tree
    out,         \* _stabilize_value(doc) from the root
    out2,        \* _stabilize_value(out) from the root
    rule,        \* matches: self
    field_name,  \* matches: field_name
    path,        \* matches: path
    matched,     \* matches: the returned bool
    data,        \* stabilize: the argument (a record or a list of records)
    result       \* stabilize: what the call ended in

vars == <<pc, doc, out, out2, rule, field_name, path, matched, data, result>>

---------------------------------------------------------------------------
(* JSON values *)

Null == [kind |-> "null"]
Bool(b) == [kind |-> "bool", b |-> b]
IntV(n) == [kind |-> "int", n |-> n]
FloatV(x) == [kind |-> "float", x |-> x]
StrV(s) == [kind |-> "str", s |-> s]
DictV(items) == [kind |-> "dict", items |-> items]
ListV(elems) == [kind |-> "list", elems |-> elems]
Item(k, v) == [k |-> k, v |-> v]

\* Placeholder of a variable that holds no value yet.
NoValue == [kind |-> "none"]

---------------------------------------------------------------------------
(* str.lower() and the `in` operator on str *)

UpperCase == <<"A","B","C","D","E","F","G","H","I","J","K","L","M",
               "N","O","P","Q","R","S","T","U","V","W","X","Y","Z">>
LowerCase == <<"a","b","c","d","e","f","g","h","i","j","k","l","m",
               "n","o","p","q","r","s","t","u","v","w","x","y","z">>

LowerOf == [c \in {UpperCase[i] : i \in 1..Len(UpperCase)} |->
               LowerCase[CHOOSE i \in 1..Len(UpperCase) : UpperCase[i] = c]]

lower_char(c) == IF c \in DOMAIN LowerOf THEN LowerOf[c] ELSE c

lower(s) == [i \in 1..Len(s) |-> lower_char(s[i])]

\* c in s, for a string c of one character.
char_in(c, s) == \E i \in 1..Len(s) : s[i] = c

\* sub in s: sub occurs at some start offset of s.
str_in(sub, s) ==
    \E i \in 1..(Len(s) - Len(sub) + 1) :
        \A j \in 1..Len(sub) : s[i + j - 1] = sub[j]

---------------------------------------------------------------------------
(* StabilizationInfo and STABILIZATION_RULES *)

DUMMY_COUNT == 1

DOMAND_BID_COOKIE_NAME == <<"d","o","m","a","n","d","_","b","i","d">>

StabilizationInfo(pattern, replacement_value, is_partial_match) ==
    [pattern |-> pattern,
     replacement_value |-> replacement_value,
     is_partial_match |-> is_partial_match]

\* Faulty variant of matches: the substring comparison keeps the case.
matches_case_sensitive(self, field, p) ==
    LET target == IF char_in(".", self.pattern) THEN p ELSE field
    IN  IF self.is_partial_match
        THEN str_in(self.pattern, target)
        ELSE self.pattern = target

matches(self, field, p) ==
    LET target == IF char_in(".", self.pattern) THEN p ELSE field
    IN  IF self.is_partial_match
        THEN str_in(lower(self.pattern), lower(target))
        ELSE self.pattern = target

STABILIZATION_RULES == <<
    StabilizationInfo(<<"s","e","a","r","c","h","I","d">>,
                      StrV("dummy-search-id-for-testing"), FALSE),
    StabilizationInfo(<<"l","a","s","t","V","i","e","w","e","d","A","t">>,
                      StrV("2025-01-01T00:00:00+09:00"), FALSE),
    StabilizationInfo(<<"s","e","r","v","e","r","T","i","m","e">>,
                      StrV("2025-01-01T00:00:00+09:00"), FALSE),
    StabilizationInfo(<<"r","e","g","i","s","t","e","r","e","d","A","t">>,
                      StrV("2025-01-01T00:00:00+09:00"), FALSE),
    StabilizationInfo(<<"n","i","c","o","s","i","d">>,
                      StrV("dummy_nicosid_for_testing"), FALSE),
    StabilizationInfo(<<"w","a","t","c","h","T","r","a","c","k","I","d">>,
                      StrV("dummy_track_id_for_testing"), FALSE),
    StabilizationInfo(<<"i","s","P","e","a","k","T","i","m","e">>,
                      Bool(FALSE), FALSE),
    StabilizationInfo(<<"i","s","N","i","c","o","d","i","c","A","r","t","i","c","l","e",
                        "E","x","i","s","t","s">>,
                      Bool(FALSE), FALSE),
    StabilizationInfo(<<"t","h","u","m","b","n","a","i","l","U","r","l">>,
                      StrV("https://resource.video.nimg.jp/web/img/series/no_thumbnail.png"),
                      FALSE),
    StabilizationInfo(<<"p","l","a","y","b","a","c","k","P","o","s","i","t","i","o","n">>,
                      FloatV("0.0"), FALSE),
    StabilizationInfo(<<"h","l","s","_","u","r","l">>,
                      StrV("https://dummy.hls.url/for/testing"), FALSE),
    StabilizationInfo(DOMAND_BID_COOKIE_NAME,
                      StrV("dummy_domand_bid_for_testing"), FALSE),
    StabilizationInfo(<<"h","l","s","_","p","l","a","y","l","i","s","t","_","t","e","x","t">>,
                      StrV("dummy_hls_playlist_text_for_testing"), FALSE),
    StabilizationInfo(<<"t","h","r","e","a","d","K","e","y">>,
                      StrV("dummy.jwt.token.for.testing"), FALSE),
    StabilizationInfo(<<"a","c","c","e","s","s","R","i","g","h","t","K","e","y">>,
                      StrV("dummy.jwt.token.for.testing"), FALSE),
    StabilizationInfo(<<"e","d","i","t","K","e","y">>,
                      StrV("dummy.jwt.token.for.testing"), FALSE),
    StabilizationInfo(<<"v","i","e","w","s">>,
                      IntV(DUMMY_COUNT), FALSE),
    StabilizationInfo(<<"w","a","k","u",".","i","n","f","o","r","m","a","t","i","o","n">>,
                      Null, TRUE),
    StabilizationInfo(<<"d","e","s","c","r","i","p","t","i","o","n">>,
                      StrV("This is a dummy description for testing purposes."), TRUE)
>>

---------------------------------------------------------------------------
(* FieldStabilizer._stabilize_value and _stabilize_dict *)

RECURSIVE _stabilize_value(_, _, _, _)

\* for rule in self.rules: if rule.matches(key, path): return ...
\* The index of the rule the loop returns at, 0 when it runs to its end.
RECURSIVE rule_loop(_, _, _, _)
rule_loop(rules, key, p, i) ==
    IF i > Len(rules) THEN 0
    ELSE IF matches(rules[i], key, p) THEN i
    ELSE rule_loop(rules, key, p, i + 1)

\* Faulty variant of first_rule: the loop does not return at the first
\* match, so the last matching rule decides.
first_rule_last_wins(key, p) ==
    LET hits == {i \in 1..Len(STABILIZATION_RULES) : matches(STABILIZATION_RULES[i], key, p)}
    IN  IF hits = {} THEN 0 ELSE CHOOSE i \in hits : \A j \in hits : j <= i

first_rule(key, p) == rule_loop(STABILIZATION_RULES, key, p, 1)

\* isinstance(value, (int, float)); bool is a subclass of int.
is_int_or_float(value) == value.kind \in {"bool", "int", "float"}

\* "count" in k.lower()
count_in_key(k) == str_in(<<"c","o","u","n","t">>, lower(k))

\* f"{parent_path}.{k}" if parent_path else k
child_path(parent_path, k) ==
    IF parent_path # <<>> THEN parent_path \o <<".">> \o k ELSE k

\* Faulty variant of _stabilize_dict: the parent's count context is not
\* passed on.
_stabilize_dict_own_count_only(d, parent_is_count, parent_path) ==
    DictV([i \in 1..Len(d.items) |->
        Item(d.items[i].k,
             _stabilize_value(d.items[i].k,
                              d.items[i].v,
                              count_in_key(d.items[i].k),
                              child_path(parent_path, d.items[i].k)))])

\* Faulty variant of _stabilize_dict: entries that a rule matches are left
\* out of the result.
_stabilize_dict_drops_replaced(d, parent_is_count, parent_path) ==
    LET keep == SelectSeq(d.items, LAMBDA it :
                    first_rule(it.k, child_path(parent_path, it.k)) = 0)
    IN  DictV([i \in 1..Len(keep) |->
            Item(keep[i].k,
                 _stabilize_value(keep[i].k,
                                  keep[i].v,
                                  parent_is_count \/ count_in_key(keep[i].k),
                                  child_path(parent_path, keep[i].k)))])

_stabilize_dict(d, parent_is_count, parent_path) ==
    DictV([i \in 1..Len(d.items) |->
        Item(d.items[i].k,
             _stabilize_value(d.items[i].k,
                              d.items[i].v,
                              parent_is_count \/ count_in_key(d.items[i].k),
                              child_path(parent_path, d.items[i].k)))])

\* Faulty variant of stabilize_list: the element index enters the path.
stabilize_list_indexed_path(key, value, is_in_count_context, p) ==
    ListV([i \in 1..Len(value.elems) |->
        _stabilize_value(key, value.elems[i], is_in_count_context,
                         child_path(p, <<"0">>))])

\* [self._stabilize_value(key, item, is_in_count_context, path=path) for item in value]
stabilize_list(key, value, is_in_count_context, p) ==
    ListV([i \in 1..Len(value.elems) |->
        _stabilize_value(key, value.elems[i], is_in_count_context, p)])

\* Faulty variant of _stabilize_value: containers are descended into
\* before the rules are consulted.
_stabilize_value_descends_first(key, value, is_in_count_context, p) ==
    IF value.kind = "dict" THEN _stabilize_dict(value, is_in_count_context, p)
    ELSE IF value.kind = "list" THEN stabilize_list(key, value, is_in_count_context, p)
    ELSE IF first_rule(key, p) # 0
    THEN STABILIZATION_RULES[first_rule(key, p)].replacement_value
    ELSE IF is_in_count_context /\ is_int_or_float(value) THEN IntV(DUMMY_COUNT)
    ELSE value

\* Faulty variant of _stabilize_value: a count is offset by DUMMY_COUNT
\* instead of replaced by it.
_stabilize_value_increments(key, value, is_in_count_context, p) ==
    IF first_rule(key, p) # 0
    THEN STABILIZATION_RULES[first_rule(key, p)].replacement_value
    ELSE IF value.kind = "dict" THEN _stabilize_dict(value, is_in_count_context, p)
    ELSE IF value.kind = "list" THEN stabilize_list(key, value, is_in_count_context, p)
    ELSE IF is_in_count_context /\ value.kind = "int" THEN IntV(value.n + DUMMY_COUNT)
    ELSE value

_stabilize_value(key, value, is_in_count_context, p) ==
    \* 1. Check explicit rules first
    LET m == first_rule(key, p) IN
    IF m # 0
    THEN STABILIZATION_RULES[m].replacement_value
    \* 2. Handle nested structures
    ELSE IF value.kind = "dict" THEN _stabilize_dict(value, is_in_count_context, p)
    ELSE IF value.kind = "list" THEN stabilize_list(key, value, is_in_count_context, p)
    \* 3. Handle count values
    ELSE IF is_in_count_context /\ is_int_or_float(value) THEN IntV(DUMMY_COUNT)
    ELSE value

\* The call _stabilize_model makes: from the root.
stabilize_root(tree) == _stabilize_value(<<>>, tree, FALSE, <<>>)

---------------------------------------------------------------------------
(* The input trees of the traversal *)

MaxDepth == 3   \* containers nested around a leaf
MaxLen == 2     \* elements of a list

K_views == <<"v","i","e","w","s">>
K_waku == <<"w","a","k","u">>
K_information == <<"i","n","f","o","r","m","a","t","i","o","n">>
K_informationDescription ==
    <<"i","n","f","o","r","m","a","t","i","o","n","D","e","s","c","r","i","p","t","i","o","n">>
K_likeCount == <<"l","i","k","e","C","o","u","n","t">>
K_total == <<"t","o","t","a","l">>

Keys == {K_views, K_waku, K_information, K_informationDescription, K_likeCount}

Leaves == {Null, Bool(TRUE), Bool(FALSE), IntV(57), FloatV("2.5"), StrV("Live now!")}

\* An object of two entries, one of them a count field.
TwoEntries == DictV(<<Item(K_likeCount, FloatV("2.5")), Item(K_total, IntV(57))>>)

\* A further element of a list.
SiblingElem == IntV(3)

\* The trees of depth 0.
Atoms == Leaves \cup {DictV(<<>>), ListV(<<>>), TwoEntries}

\* One more container around a tree t: an object holding t under a key, or
\* a list of t and n further elements, n < MaxLen.
Wrappers ==
    {[into |-> "dict", key |-> k, more |-> 0] : k \in Keys}
    \cup {[into |-> "list", key |-> <<>>, more |-> n] : n \in 0..(MaxLen - 1)}

Wrap(w, t) ==
    IF w.into = "dict" THEN DictV(<<Item(w.key, t)>>)
    ELSE ListV(<<t>> \o [i \in 1..w.more |-> SiblingElem])

\* ws[1] around ... around ws[Len(ws)] around t.
RECURSIVE Tree(_, _)
Tree(ws, t) == IF ws = <<>> THEN t ELSE Wrap(Head(ws), Tree(Tail(ws), t))

---------------------------------------------------------------------------
(* Specification of the traversal: a tree is visited from the root, and    *)
(* the result is visited again.                                            *)

Init ==
    /\ pc = "tree"
    /\ \E d \in 0..MaxDepth : \E ws \in [1..d -> Wrappers] : \E t \in Atoms :
          doc = Tree(ws, t)
    /\ out = NoValue /\ out2 = NoValue
    /\ rule = NoValue /\ field_name = <<>> /\ path = <<>> /\ matched = NoValue
    /\ data = NoValue /\ result = NoValue

Visit ==
    /\ pc = "tree"
    /\ out' = stabilize_root(doc)
    /\ pc' = "visited"
    /\ UNCHANGED <<doc, out2, rule, field_name, path, matched, data, result>>

Revisit ==
    /\ pc = "visited"
    /\ out2' = stabilize_root(out)
    /\ pc' = "revisited"
    /\ UNCHANGED <<doc, out, rule, field_name, path, matched, data, result>>

Next == Visit \/ Revisit

Spec == Init /\ [][Next]_vars

---------------------------------------------------------------------------
(* Locations of a tree, and the context the specification gives each one.  *)
(* A location is the sequence of entry / element indices leading to it.    *)

Missing == [kind |-> "missing"]

Children(t) ==
    IF t.kind = "dict" THEN [i \in 1..Len(t.items) |-> t.items[i].v]
    ELSE IF t.kind = "list" THEN t.elems
    ELSE <<>>

RECURSIVE At(_, _)
At(t, pos) ==
    IF pos = <<>> THEN t
    ELSE IF Head(pos) \in 1..Len(Children(t))
    THEN At(Children(t)[Head(pos)], Tail(pos))
    ELSE Missing

\* The keys on the chain from the root to a location (list steps add none).
RECURSIVE KeyChain(_, _)
KeyChain(t, pos) ==
    IF pos = <<>> \/ Head(pos) \notin 1..Len(Children(t)) THEN <<>>
    ELSE (IF t.kind = "dict" THEN <<t.items[Head(pos)].k>> ELSE <<>>)
         \o KeyChain(Children(t)[Head(pos)], Tail(pos))

IsSubstring(sub, s) ==
    \E i \in 0..(Len(s) - Len(sub)) : SubSeq(s, i + 1, i + Len(sub)) = sub

\* key: the immediate field name, "" at the root.
RefKey(chain) == IF chain = <<>> THEN <<>> ELSE chain[Len(chain)]

\* path: the keys from the root joined by ".", "" at the root.
RECURSIVE RefPath(_)
RefPath(chain) ==
    IF chain = <<>> THEN <<>>
    ELSE IF Len(chain) = 1 THEN chain[1]
    ELSE RefPath(SubSeq(chain, 1, Len(chain) - 1)) \o <<".">> \o chain[Len(chain)]

\* countContext: some key on the chain contains "count", case-insensitively.
RefCount(chain) ==
    \E i \in 1..Len(chain) : IsSubstring(<<"c","o","u","n","t">>, lower(chain[i]))

\* The reference predicate of rule matching, given whether the pattern
\* holds a separator and the pattern lower-cased.
RefMatchesWith(r, byPath, lowered, field, p) ==
    LET target == IF byPath THEN p ELSE field
    IN  IF r.is_partial_match
        THEN IsSubstring(lowered, lower(target))
        ELSE Len(r.pattern) = Len(target)
             /\ \A i \in 1..Len(target) : r.pattern[i] = target[i]

HasSeparator(s) == "." \in {s[i] : i \in 1..Len(s)}

RefMatches(r, field, p) ==
    RefMatchesWith(r, HasSeparator(r.pattern), lower(r.pattern), field, p)

\* Per rule of the table: whether its pattern holds a separator, and its
\* pattern lower-cased.
RECURSIVE RuleSeparators(_)
RuleSeparators(i) ==
    IF i > Len(STABILIZATION_RULES) THEN <<>>
    ELSE <<HasSeparator(STABILIZATION_RULES[i].pattern)>> \o RuleSeparators(i + 1)

RECURSIVE RuleLowered(_)
RuleLowered(i) ==
    IF i > Len(STABILIZATION_RULES) THEN <<>>
    ELSE <<lower(STABILIZATION_RULES[i].pattern)>> \o RuleLowered(i + 1)

TableSeparators == RuleSeparators(1)
TableLowered == RuleLowered(1)

\* The rules of the table that match a key and path, by index.
HitsAt(key, p) ==
    {i \in 1..Len(STABILIZATION_RULES) :
        RefMatchesWith(STABILIZATION_RULES[i], TableSeparators[i], TableLowered[i], key, p)}

\* The rules of the table that match a location, by index.
Hits(t, pos) ==
    LET chain == KeyChain(t, pos)
        key == RefKey(chain)
        p == RefPath(chain)
    IN  HitsAt(key, p)

\* The locations at and below pos that no rule matches, given that none
\* matches above pos.
RECURSIVE ClearBelow(_, _)
ClearBelow(t, pos) ==
    IF Hits(t, pos) # {} THEN {}
    ELSE {pos} \cup UNION {ClearBelow(t, pos \o <<i>>) :
                             i \in 1..Len(Children(At(t, pos)))}

\* The locations at and below pos that a rule matches while none matches
\* above them: where the traversal arrives at a match.
RECURSIVE MatchedBelow(_, _)
MatchedBelow(t, pos) ==
    IF Hits(t, pos) # {} THEN {pos}
    ELSE UNION {MatchedBelow(t, pos \o <<i>>) : i \in 1..Len(Children(At(t, pos)))}

\* No rule matches the location or any location above it.
ClearPositions(t) == ClearBelow(t, <<>>)

\* A rule matches the location and none matches a location above it.
MatchedPositions(t) == MatchedBelow(t, <<>>)

IsContainer(v) == v.kind \in {"dict", "list"}
IsNumber(v) == v.kind \in {"int", "float"}
KeysOf(v) == {v.items[i].k : i \in 1..Len(v.items)}
Visited == pc = "visited"

---------------------------------------------------------------------------
(* Claims about the traversal *)

\* C1. Idempotence: visiting the result of a visit from the root again
\* yields the same tree.
C1_Idempotent == pc = "revisited" => out2 = out

\* A tree the first visit changed, visited twice.
C1_Witness ==
    /\ pc = "revisited"
    /\ out # doc
    /\ \E pos \in ClearPositions(doc) :
          IsNumber(At(doc, pos))
          /\ At(doc, pos) # At(out, pos)

\* C2. Shape preservation: at every location that no rule matches (nor any
\* location above it), the output has the same kind of container as the
\* input, an object has the same key set and a list the same length.
C2_ShapePreserved ==
    Visited =>
        \A pos \in ClearPositions(doc) :
                LET a == At(doc, pos)
                    b == At(out, pos)
                IN  /\ a.kind = "dict" =>
                          b.kind = "dict" /\ Len(b.items) = Len(a.items)
                          /\ KeysOf(b) = KeysOf(a)
                    /\ a.kind = "list" =>
                          b.kind = "list" /\ Len(b.elems) = Len(a.elems)
                    /\ ~IsContainer(a) => ~IsContainer(b)

\* An object of two keys and a list of two elements, neither matched, in a
\* tree that the visit changes.
C2_Witness ==
    /\ Visited
    /\ out # doc
    /\ \E pos \in ClearPositions(doc) :
          At(doc, pos).kind = "dict" /\ Cardinality(KeysOf(At(doc, pos))) = 2
    /\ \E pos \in ClearPositions(doc) :
          At(doc, pos).kind = "list" /\ Len(At(doc, pos).elems) = 2

\* C3. Rule precedence: where the traversal arrives at a location that some
\* rule matches, the output there is the replacement of a matching rule,
\* whatever the value and the count context were.
C3_RulePrecedence ==
    Visited =>
        \A pos \in MatchedPositions(doc) :
            \E i \in Hits(doc, pos) :
                At(out, pos) = STABILIZATION_RULES[i].replacement_value

\* A non-empty object under "waku.information", inside a count context,
\* replaced by null.
C3_Witness ==
    /\ Visited
    /\ \E pos \in MatchedPositions(doc) :
          /\ At(doc, pos).kind = "dict" /\ At(doc, pos).items # <<>>
          /\ RefCount(KeyChain(doc, pos))
          /\ At(out, pos) = Null

\* C4. Count propagation: a numeric leaf with a key containing "count" on
\* its chain, and no rule matching on the chain, becomes DUMMY_COUNT.
C4_CountPropagation ==
    Visited =>
        \A pos \in ClearPositions(doc) :
            (IsNumber(At(doc, pos)) /\ RefCount(KeyChain(doc, pos))) =>
                At(out, pos) = IntV(DUMMY_COUNT)

\* A number three containers below the count key, through a list and an
\* object whose own key has no "count".
C4_Witness ==
    /\ Visited
    /\ \E pos \in ClearPositions(doc) :
          /\ IsNumber(At(doc, pos))
          /\ Len(pos) = 3
          /\ Len(KeyChain(doc, pos)) = 2
          /\ KeyChain(doc, pos)[1] = K_likeCount
          /\ ~RefCount(<<KeyChain(doc, pos)[2]>>)
          /\ At(out, pos) = IntV(DUMMY_COUNT) /\ At(doc, pos) # IntV(DUMMY_COUNT)

\* C5. First-match-wins: where several rules match the location the
\* traversal arrives at, the output is the replacement of the earliest.
C5_FirstMatchWins ==
    Visited =>
        \A pos \in MatchedPositions(doc) :
            Cardinality(Hits(doc, pos)) >= 2 =>
                LET first == CHOOSE i \in Hits(doc, pos) :
                                 \A j \in Hits(doc, pos) : i <= j
                IN  At(out, pos) = STABILIZATION_RULES[first].replacement_value

\* "informationDescription" directly under "waku": the path rule and the
\* description rule both match, and the output is null.
C5_Witness ==
    /\ Visited
    /\ \E pos \in MatchedPositions(doc) :
          /\ Cardinality(Hits(doc, pos)) >= 2
          /\ RefKey(KeyChain(doc, pos)) = K_informationDescription
          /\ At(out, pos) = Null

\* C9. Leaf handling: an unmatched leaf becomes DUMMY_COUNT when it is a
\* number (integer or floating-point) in a count context, and is returned
\* unchanged otherwise (null, boolean and string leaves always).
C9_LeafHandling ==
    Visited =>
        \A pos \in ClearPositions(doc) :
            ~IsContainer(At(doc, pos)) =>
                IF IsNumber(At(doc, pos)) /\ RefCount(KeyChain(doc, pos))
                THEN At(out, pos) = IntV(DUMMY_COUNT)
                ELSE At(out, pos) = At(doc, pos)

\* C10. List transparency: an unmatched list at key k, path p, count
\* context c becomes the list of the visits of its elements with the same
\* k, c and p, in order.
C10_ListTransparency ==
    Visited =>
        \A pos \in ClearPositions(doc) :
            At(doc, pos).kind = "list" =>
                LET L == At(doc, pos).elems
                    chain == KeyChain(doc, pos)
                IN  At(out, pos) =
                        ListV([i \in 1..Len(L) |->
                            _stabilize_value(RefKey(chain), L[i], RefCount(chain),
                                             RefPath(chain))])

\* A list under "waku" whose first element is an object with the field
\* "information": the field is visited with path "waku.information".
C10_Witness ==
    /\ Visited
    /\ \E pos \in ClearPositions(doc) :
          /\ At(doc, pos).kind = "list"
          /\ KeyChain(doc, pos) = <<K_waku>>
          /\ At(doc, pos).elems # <<>>
          /\ At(doc, pos).elems[1].kind = "dict"
          /\ At(doc, pos).elems[1].items # <<>>
          /\ At(doc, pos).elems[1].items[1].k = K_information
          /\ At(out, pos).elems[1].items[1].v = Null

---------------------------------------------------------------------------
(* Specification of StabilizationInfo.matches: one call on a rule, a field *)
(* name and a path over a small alphabet.                                  *)

MaxPatternLen == 2
MaxNameLen == 2
MaxPathLen == 3

Alphabet == {"a", "A", "."}

Strs(n) == UNION {[1..k -> Alphabet] : k \in 0..n}

InitMatches ==
    /\ pc = "rule"
    /\ rule \in {StabilizationInfo(pt, Null, b) :
                    pt \in Strs(MaxPatternLen), b \in BOOLEAN}
    /\ field_name \in Strs(MaxNameLen)
    /\ path \in Strs(MaxPathLen)
    /\ matched = NoValue
    /\ doc = NoValue /\ out = NoValue /\ out2 = NoValue
    /\ data = NoValue /\ result = NoValue

Matches ==
    /\ pc = "rule"
    /\ matched' = matches(rule, field_name, path)
    /\ pc' = "matched"
    /\ UNCHANGED <<doc, out, out2, rule, field_name, path, data, result>>

NextMatches == Matches

SpecMatches == InitMatches /\ [][NextMatches]_vars

\* C6. matches(rule, fieldName, path) equals the reference predicate: the
\* target is the path when the pattern contains "." and the field name
\* otherwise; Substring mode is lower-cased containment, Exact mode is
\* case-sensitive equality.
C6_MatchesReference ==
    pc = "matched" => matched = RefMatches(rule, field_name, path)

\* A substring rule with a separator that matches the path only through
\* lower-casing, in the middle of a longer path, and not on the field name.
C6_Witness ==
    /\ pc = "matched"
    /\ matched = TRUE
    /\ rule.is_partial_match
    /\ HasSeparator(rule.pattern)
    /\ ~IsSubstring(rule.pattern, path)
    /\ Len(path) > Len(rule.pattern)
    /\ ~IsSubstring(lower(rule.pattern), lower(field_name))

---------------------------------------------------------------------------
(* Records (pydantic models) and FieldStabilizer.stabilize                 *)
(*                                                                         *)
(* A record is [kind |-> "model", cls, values]: the values of the fields   *)
(* of its class, in the order of the class's schema.  A raised validation  *)
(* error is [kind |-> "ValidationError", cls].                             *)

FieldInfo(name, alias, type) == [name |-> name, alias |-> alias, type |-> type]

K_nicosid == <<"n","i","c","o","s","i","d">>
K_isPeakTime == <<"i","s","P","e","a","k","T","i","m","e">>

\* The schema of each record class: field, serialized alias, field type.
ModelFields(cls) ==
    CASE cls = "Session" ->
            <<FieldInfo("nicosid", K_nicosid, "str"),
              FieldInfo("is_peak_time", K_isPeakTime, "bool")>>
      [] cls = "Counter" ->
            <<FieldInfo("like_count", K_likeCount, "int"),
              FieldInfo("total", K_total, "int")>>
      [] cls = "Caption" ->
            <<FieldInfo("views", K_views, "str")>>

Model(cls, values) == [kind |-> "model", cls |-> cls, values |-> values]
ValidationError(cls) == [kind |-> "ValidationError", cls |-> cls]

\* data.model_dump(by_alias=True)
model_dump(m) ==
    DictV([i \in 1..Len(m.values) |-> Item(ModelFields(m.cls)[i].alias, m.values[i])])

\* The tree gives every field of the class, under its alias, a value of
\* the field's type.
Conforms(cls, tree) ==
    /\ tree.kind = "dict"
    /\ \A i \in 1..Len(ModelFields(cls)) :
          \E j \in 1..Len(tree.items) :
              /\ tree.items[j].k = ModelFields(cls)[i].alias
              /\ tree.items[j].v.kind = ModelFields(cls)[i].type

\* The record of class cls that takes each field's value from the tree.
model_construct(cls, tree) ==
    Model(cls, [i \in 1..Len(ModelFields(cls)) |->
        IF \E j \in 1..Len(tree.items) : tree.items[j].k = ModelFields(cls)[i].alias
        THEN tree.items[CHOOSE j \in 1..Len(tree.items) :
                            tree.items[j].k = ModelFields(cls)[i].alias].v
        ELSE Null])

\* data.__class__.model_validate(stabilized_dict)
model_validate(cls, tree) ==
    IF Conforms(cls, tree) THEN model_construct(cls, tree) ELSE ValidationError(cls)

\* Faulty variant of _stabilize_model: the record is rebuilt without
\* validation.
_stabilize_model_unvalidated(m) ==
    model_construct(m.cls, _stabilize_value(<<>>, model_dump(m), FALSE, <<>>))

_stabilize_model(m) ==
    LET data_dict == model_dump(m)
        stabilized_dict == _stabilize_value(<<>>, data_dict, FALSE, <<>>)
    IN  model_validate(m.cls, stabilized_dict)

\* [f(item) for item in data]: the list of the results, or the first
\* exception an item raises.
list_comprehension(results) ==
    IF \E i \in 1..Len(results) : results[i].kind = "ValidationError"
    THEN results[CHOOSE i \in 1..Len(results) :
                    /\ results[i].kind = "ValidationError"
                    /\ \A j \in 1..(i - 1) : results[j].kind # "ValidationError"]
    ELSE ListV(results)

\* Faulty variant of stabilize: only the first record of a list is
\* stabilized.
stabilize_first_only(d) ==
    IF d.kind = "list"
    THEN list_comprehension([i \in 1..Len(d.elems) |->
            IF i = 1 THEN _stabilize_model(d.elems[i]) ELSE d.elems[i]])
    ELSE _stabilize_model(d)

stabilize(d) ==
    IF d.kind = "list"
    THEN list_comprehension([i \in 1..Len(d.elems) |-> _stabilize_model(d.elems[i])])
    ELSE _stabilize_model(d)

---------------------------------------------------------------------------
(* Specification of stabilize: one call on a record or a list of records.  *)

MaxRecords == 3   \* records of a list

Records ==
    {Model("Session", <<StrV("abc123"), Bool(TRUE)>>),
     Model("Session", <<StrV("xyz789"), Bool(FALSE)>>),
     Model("Counter", <<IntV(4821), IntV(57)>>),
     Model("Counter", <<IntV(1), IntV(57)>>),
     Model("Caption", <<StrV("1,234")>>)}

InitStabilize ==
    /\ pc = "data"
    /\ data \in Records \cup {ListV(l) : l \in UNION {[1..n -> Records] : n \in 0..MaxRecords}}
    /\ result = NoValue
    /\ doc = NoValue /\ out = NoValue /\ out2 = NoValue
    /\ rule = NoValue /\ field_name = <<>> /\ path = <<>> /\ matched = NoValue

Stabilize ==
    /\ pc = "data"
    /\ result' = stabilize(data)
    /\ pc' = "returned"
    /\ UNCHANGED <<doc, out, out2, rule, field_name, path, matched, data>>

NextStabilize == Stabilize

SpecStabilize == InitStabilize /\ [][NextStabilize]_vars

\* The records of the argument.
Given == IF data.kind = "list" THEN data.elems ELSE <<data>>

\* C7. stabilize of a list of records returns the list, of the same length
\* and order, of stabilize of each record alone; stabilize of a single
\* record returns a single record.
C7_Elementwise ==
    pc = "returned" =>
        /\ (data.kind = "list" /\ result.kind = "list") =>
              /\ Len(result.elems) = Len(data.elems)
              /\ \A i \in 1..Len(data.elems) : result.elems[i] = stabilize(data.elems[i])
        /\ (data.kind = "list" /\ result.kind = "ValidationError") =>
              \E i \in 1..Len(data.elems) : result = stabilize(data.elems[i])
        /\ data.kind = "model" => result.kind \in {"model", "ValidationError"}

\* A list of a Counter record followed by a Session record: both come back
\* changed, in order, and the second has no count applied to it.
C7_Witness ==
    /\ pc = "returned"
    /\ data.kind = "list" /\ Len(data.elems) = 2
    /\ data.elems[1].cls = "Counter" /\ data.elems[2].cls = "Session"
    /\ result.kind = "list"
    /\ result.elems[1] # data.elems[1] /\ result.elems[2] # data.elems[2]
    /\ result.elems[1].cls = "Counter" /\ result.elems[2].cls = "Session"

\* The stabilized tree of a record does not fit the record's schema.
Incompatible(m) == ~Conforms(m.cls, stabilize_root(model_dump(m)))

\* C8. Reconstruction failure is fatal: when the stabilized tree of a
\* record does not fit its schema, stabilize ends in a validation error and
\* returns nothing; whatever it returns fits the schema and has the class
\* of the input.
C8_ReconstructionFatal ==
    pc = "returned" =>
        LET returned == IF result.kind = "list" THEN result.elems
                        ELSE IF result.kind = "model" THEN <<result>>
                        ELSE <<>>
        IN  /\ (\E i \in 1..Len(Given) : Incompatible(Given[i])) =>
                  result.kind = "ValidationError"
            /\ result.kind # "ValidationError" =>
                  /\ result.kind = data.kind
                  /\ Len(returned) = Len(Given)
                  /\ \A i \in 1..Len(Given) :
                        /\ returned[i].kind = "model"
                        /\ returned[i].cls = Given[i].cls
                        /\ Conforms(returned[i].cls, model_dump(returned[i]))

\* A list whose first record reconstructs and whose second does not: the
\* call ends in the second record's validation error.
C8_Witness ==
    /\ pc = "returned"
    /\ data.kind = "list" /\ Len(data.elems) = 2
    /\ ~Incompatible(data.elems[1]) /\ Incompatible(data.elems[2])
    /\ result = ValidationError(data.elems[2].cls)

=============================================================================
